---- MODULE Spec2Model ----
(***************************************************************************)
(* The JWT authentication core of the clinic API: token issuance           *)
(* (create_access_token, create_refresh_token), the token guards           *)
(* (check_access_token, check_refresh_token), the login handler and the    *)
(* operations of UserModel on the users table.                             *)
(*                                                                         *)
(* Time is in seconds (chrono's timestamp()).  HMAC-SHA256 is modelled as   *)
(* an ideal MAC: a signature is the tuple of key, header and payload, so it *)
(* verifies exactly under the key and over the bytes it was made with.      *)
(* bcrypt is modelled as an ideal salted one-way function: the digest is    *)
(* the pair of salt and password, and hash_password draws a fresh salt.     *)
(***************************************************************************)
EXTENDS Integers, Sequences, FiniteSets, TLC

VARIABLES
    env,        \* the process environment (std::env), fixed after start-up
    now,        \* Utc::now().timestamp(), seconds
    ticks,      \* how often the clock has advanced
    users,      \* the users table: id -> row, for the ids that exist
    tokens,     \* the tokens issued so far, each with the arguments it was made from
    last,       \* the request handled last: what was sent and how it was answered
    orders,     \* the orders table: its rows and the next AUTO_INCREMENT id
    reqs        \* the requests in flight through check_access_token, each with its own
                \* position, token, claims and extensions

vars == <<env, now, ticks, users, tokens, last, orders, reqs>>

\* an empty orders table, and no request in flight
NoOrders == [auto_increment |-> 1, rows |-> {}]
NoRequests == << >>

----------------------------------------------------------------------------
(* Bounds of the model *)

MaxTicks == 1
MaxLogins == 1
MaxPasswordVersion == 2

----------------------------------------------------------------------------
(* The environment *)

UNSET == "UNSET"            \* env::var(..) is Err: the variable is absent
Secrets == {"k1", "k2"}

\* str::parse::<i64>: the texts of the model that parse, with their value
ParseTable == [t \in {"-1", "0", "1"} |-> CASE t = "-1" -> -1 [] t = "0" -> 0 [] t = "1" -> 1]

ExpireTexts == {UNSET, "abc", "-1", "0", "1"}

DefaultAccessMinutes == 90
DefaultRefreshHours == 720
SecondsPerMinute == 60
SecondsPerHour == 3600

\* the lifetime with a text that spells no integer read as 0
ParseExpireOrZero(raw, default) ==
    IF raw = UNSET THEN default
    ELSE IF raw \in DOMAIN ParseTable THEN ParseTable[raw]
    ELSE 0

\* env::var(NAME).unwrap_or_else(|_| default).parse::<i64>().unwrap_or(default)
ParseExpire(raw, default) ==
    IF raw = UNSET THEN default
    ELSE IF raw \in DOMAIN ParseTable THEN ParseTable[raw]
    ELSE default

----------------------------------------------------------------------------
(* Claims, JSON and tokens *)

\* an f32: NaN is kept apart from the numbers
F32(v) == [nan |-> FALSE, v |-> v]
NaN == [nan |-> TRUE, v |-> 0]

\* serde_json writes a non-finite float as null
JsonF32(x) == IF x.nan THEN [t |-> "null", v |-> 0] ELSE [t |-> "num", v |-> x.v]

IdentityFields == {"user_id", "shop_id", "shop_mother_id", "role_id", "shop_role_id",
                   "user_email", "sr_discount_type_id", "sr_discount", "password_version"}
AccessFields == IdentityFields \cup {"exp", "iat"}
RefreshFields == AccessFields \cup {"user_type"}

\* #[derive(Serialize)] of AccessTokenClaims: the JSON object of the payload
SerializeAccess(c, exp, iat) ==
    [user_id |-> c.user_id, shop_id |-> c.shop_id, shop_mother_id |-> c.shop_mother_id,
     role_id |-> c.role_id, shop_role_id |-> c.shop_role_id, user_email |-> c.user_email,
     sr_discount_type_id |-> c.sr_discount_type_id, sr_discount |-> JsonF32(c.sr_discount),
     password_version |-> c.password_version, exp |-> exp, iat |-> iat]

\* #[derive(Serialize)] of RefreshTokenClaims
SerializeRefresh(c, exp, iat) ==
    [user_id |-> c.user_id, shop_id |-> c.shop_id, shop_mother_id |-> c.shop_mother_id,
     role_id |-> c.role_id, shop_role_id |-> c.shop_role_id, user_email |-> c.user_email,
     sr_discount_type_id |-> c.sr_discount_type_id, sr_discount |-> JsonF32(c.sr_discount),
     password_version |-> c.password_version, user_type |-> c.user_type,
     exp |-> exp, iat |-> iat]

\* the ideal MAC
Sign(key, alg, payload) == <<key, alg, payload>>

\* jsonwebtoken::encode(&Header::default(), &claims, &EncodingKey::from_secret(secret))
encode(payload, secret) ==
    [wellformed |-> TRUE, alg |-> "HS256", payload |-> payload,
     sig |-> Sign(secret, "HS256", payload)]

\* a string that is no three-part token
Garbage == [wellformed |-> FALSE, alg |-> "", payload |-> [exp |-> 0], sig |-> <<>>]

\* Validation::new(Algorithm::HS256): exp is validated with this leeway, in seconds
DecodeLeeway == 60

\* serde's Deserialize of a claims struct with the fields `fields`: every field must be
\* present and of its type (null is no f32); fields the struct does not have are ignored
CanDeserialize(payload, fields) ==
    /\ fields \subseteq DOMAIN payload
    /\ payload.sr_discount.t = "num"

Deserialize(payload, fields) ==
    [f \in fields |-> IF f = "sr_discount" THEN F32(payload[f].v) ELSE payload[f]]

\* decode with the comparison of the signature left out
decode_unverified(token, secret, fields, t) ==
    IF ~token.wellformed THEN [ok |-> FALSE, kind |-> "InvalidToken"]
    ELSE IF token.alg # "HS256" THEN [ok |-> FALSE, kind |-> "InvalidAlgorithm"]
    ELSE IF ~CanDeserialize(token.payload, fields) THEN [ok |-> FALSE, kind |-> "Json"]
    ELSE IF token.payload.exp < t - DecodeLeeway
         THEN [ok |-> FALSE, kind |-> "ExpiredSignature"]
    ELSE [ok |-> TRUE, kind |-> "", claims |-> Deserialize(token.payload, fields)]

\* jsonwebtoken::decode::<T>(token, &DecodingKey::from_secret(secret), &Validation::new(HS256))
\* read at time t; fields are the fields of T
decode(token, secret, fields, t) ==
    IF ~token.wellformed THEN [ok |-> FALSE, kind |-> "InvalidToken"]
    ELSE IF token.alg # "HS256" THEN [ok |-> FALSE, kind |-> "InvalidAlgorithm"]
    ELSE IF token.sig # Sign(secret, token.alg, token.payload)
         THEN [ok |-> FALSE, kind |-> "InvalidSignature"]
    ELSE IF ~CanDeserialize(token.payload, fields) THEN [ok |-> FALSE, kind |-> "Json"]
    ELSE IF token.payload.exp < t - DecodeLeeway
         THEN [ok |-> FALSE, kind |-> "ExpiredSignature"]
    ELSE [ok |-> TRUE, kind |-> "", claims |-> Deserialize(token.payload, fields)]

\* create_access_token: Err is a panic of .expect("JWT_AC_KEY must be set")
create_access_token(c, e, t) ==
    LET expiration_minutes == ParseExpire(e.JWT_AC_EXPIRE, DefaultAccessMinutes)
        exp == t + expiration_minutes * SecondsPerMinute
    IN  IF e.JWT_AC_KEY = UNSET THEN [ok |-> FALSE]
        ELSE [ok |-> TRUE, token |-> encode(SerializeAccess(c, exp, t), e.JWT_AC_KEY)]

\* create_refresh_token: Err is a panic of .expect("JWT_RF_KEY must be set")
create_refresh_token(c, e, t) ==
    LET expiration_hours == ParseExpire(e.JWT_RF_EXPIRE, DefaultRefreshHours)
        exp == t + expiration_hours * SecondsPerHour
    IN  IF e.JWT_RF_KEY = UNSET THEN [ok |-> FALSE]
        ELSE [ok |-> TRUE, token |-> encode(SerializeRefresh(c, exp, t), e.JWT_RF_KEY)]

----------------------------------------------------------------------------
(* The token guards *)

\* the Authorization header of a request: whether it is there, whether its bytes are
\* text (HeaderValue::to_str), the text up to the token and the token after it
NoHeader == [present |-> FALSE, text |-> FALSE, scheme |-> "", token |-> Garbage]
NonTextHeader == [present |-> TRUE, text |-> FALSE, scheme |-> "Bearer ", token |-> Garbage]
WrongSchemeHeader == [present |-> TRUE, text |-> TRUE, scheme |-> "Basic ", token |-> Garbage]
Bearer(tok) == [present |-> TRUE, text |-> TRUE, scheme |-> "Bearer ", token |-> tok]
\* the token after a prefix that is not "Bearer ": in lower case, without the space
LowerCaseHeader(tok) == [present |-> TRUE, text |-> TRUE, scheme |-> "bearer ", token |-> tok]
NoSpaceHeader(tok) == [present |-> TRUE, text |-> TRUE, scheme |-> "Bearer", token |-> tok]

\* the extraction with the prefix compared without regard to case
ExtractTokenAnyCase(h) == h.present /\ h.text /\ h.scheme \in {"Bearer ", "bearer "}

\* headers.get(AUTHORIZATION).and_then(to_str().ok()).and_then(strip_prefix("Bearer "))
ExtractToken(h) == h.present /\ h.text /\ h.scheme = "Bearer "

\* AuthUser { user_id: claims.user_id, ... }
AuthUserOf(claims) == [f \in IdentityFields |-> claims[f]]

NoExt == [user_id |-> 0]

\* (StatusCode, String)::into_response: the status with the string as a body of plain text
TextResponse(http, text) == [http |-> http, content_type |-> "text/plain", text |-> text]

\* how a request through a guard ended: the stages passed, the HTTP status and the
\* message of a rejection (status 0: no response, the task panicked), and the value the
\* guard put into the request's extensions before it called the next stage; reject is
\* the response the guard returned itself, if it returned one
Finished(g, h, trail, status, msg, ext, t) ==
    [guard |-> g, header |-> h, trail |-> trail, status |-> status, msg |-> msg,
     ext |-> ext, at |-> t,
     reject |-> IF trail[Len(trail)] = "Rejected" THEN {TextResponse(status, msg)} ELSE {}]

\* the run of a guard that leaves the comparison of exp with the clock to the decoder
GuardRunNoExpiry(g, h, key, fields, msgs, t) ==
    IF ~ExtractToken(h)
    THEN Finished(g, h, <<"Received", "Rejected">>, 401,
                  "Missing or invalid Authorization header", NoExt, t)
    ELSE IF key = UNSET
    THEN Finished(g, h, <<"Received", "TokenExtracted", "Panicked">>, 0, "", NoExt, t)
    ELSE LET d == decode(h.token, key, fields, t) IN
         IF ~d.ok
         THEN Finished(g, h, <<"Received", "TokenExtracted", "Rejected">>, 401,
                       msgs[1], NoExt, t)
         ELSE IF FALSE
         THEN Finished(g, h, <<"Received", "TokenExtracted", "Rejected">>, 401,
                       msgs[2], NoExt, t)
         ELSE Finished(g, h, <<"Received", "TokenExtracted", "TokenVerified",
                               "IdentityAttached", "Forwarded">>, 200, "",
                       IF g = "access" THEN AuthUserOf(d.claims) ELSE d.claims, t)

\* the run of a guard that rejects a token in the second of its exp
GuardRunStrict(g, h, key, fields, msgs, t) ==
    IF ~ExtractToken(h)
    THEN Finished(g, h, <<"Received", "Rejected">>, 401,
                  "Missing or invalid Authorization header", NoExt, t)
    ELSE IF key = UNSET
    THEN Finished(g, h, <<"Received", "TokenExtracted", "Panicked">>, 0, "", NoExt, t)
    ELSE LET d == decode(h.token, key, fields, t) IN
         IF ~d.ok
         THEN Finished(g, h, <<"Received", "TokenExtracted", "Rejected">>, 401,
                       msgs[1], NoExt, t)
         ELSE IF d.claims.exp <= t
         THEN Finished(g, h, <<"Received", "TokenExtracted", "Rejected">>, 401,
                       msgs[2], NoExt, t)
         ELSE Finished(g, h, <<"Received", "TokenExtracted", "TokenVerified",
                               "IdentityAttached", "Forwarded">>, 200, "",
                       IF g = "access" THEN AuthUserOf(d.claims) ELSE d.claims, t)

\* the run of one guard over one request at time t.  key is the guard's secret, fields
\* the fields of its claims struct, msgs its two rejection messages
GuardRun(g, h, key, fields, msgs, t) ==
    IF ~ExtractToken(h)
    THEN Finished(g, h, <<"Received", "Rejected">>, 401,
                  "Missing or invalid Authorization header", NoExt, t)
    ELSE IF key = UNSET
    THEN Finished(g, h, <<"Received", "TokenExtracted", "Panicked">>, 0, "", NoExt, t)
    ELSE LET d == decode(h.token, key, fields, t) IN
         IF ~d.ok
         THEN Finished(g, h, <<"Received", "TokenExtracted", "Rejected">>, 401,
                       msgs[1], NoExt, t)
         ELSE IF d.claims.exp < t
         THEN Finished(g, h, <<"Received", "TokenExtracted", "Rejected">>, 401,
                       msgs[2], NoExt, t)
         ELSE Finished(g, h, <<"Received", "TokenExtracted", "TokenVerified",
                               "IdentityAttached", "Forwarded">>, 200, "",
                       IF g = "access" THEN AuthUserOf(d.claims) ELSE d.claims, t)

AccessRun(h, e, t) ==
    GuardRun("access", h, e.JWT_AC_KEY, AccessFields,
             <<"Invalid or expired token", "Token expired">>, t)

RefreshRun(h, e, t) ==
    GuardRun("refresh", h, e.JWT_RF_KEY, RefreshFields,
             <<"Invalid or expired refresh token", "Refresh token expired">>, t)

----------------------------------------------------------------------------
(* The users table and the credential hasher *)

Salts == {"s1", "s2"}
Emails == {"a@b.com"}
NULL == "NULL"                               \* user_otp_url IS NULL
OtpUrls == {NULL, "", "otpauth://totp/x"}

\* the passwords of the model, with their length
PasswordLen == [p \in {"secret1", "wrong12", "short"} |->
                  CASE p = "secret1" -> 7 [] p = "wrong12" -> 7 [] p = "short" -> 5]
Passwords == DOMAIN PasswordLen
MinPasswordLen == 6

\* the usernames of the model: which are of the form of an e-mail address
Usernames == Emails \cup {"x@y.com", "nobody"}
IsEmail(u) == u # "nobody"

\* two passwords of 73 bytes that differ in the last byte, and their first 72 bytes
LongPasswords ==
    {"aaaaaaaaaaaaaaaaaaaaaaaaaaaaaaaaaaaaaaaaaaaaaaaaaaaaaaaaaaaaaaaaaaaaaaaax",
     "aaaaaaaaaaaaaaaaaaaaaaaaaaaaaaaaaaaaaaaaaaaaaaaaaaaaaaaaaaaaaaaaaaaaaaaay"}
First72 ==
    [p \in LongPasswords |->
     "aaaaaaaaaaaaaaaaaaaaaaaaaaaaaaaaaaaaaaaaaaaaaaaaaaaaaaaaaaaaaaaaaaaaaaaa"]

\* bcrypt hashes the bytes of the password and a terminating NUL, cut to 72 bytes
Bcrypt72(password) == IF password \in LongPasswords THEN First72[password] ELSE password

\* bcrypt::hash(password, DEFAULT_COST) with the salt drawn
hash_password(password, salt) == [salt |-> salt, pw |-> Bcrypt72(password)]

\* bcrypt::verify(password, hash): hashes with the salt of the digest and compares
verify_password(password, digest) == hash_password(password, digest.salt) = digest

\* the query with the condition on user_password left out
LoginRowsByEmail(tbl, username, password_hash) ==
    {id \in DOMAIN tbl : /\ tbl[id].user_email = username
                         /\ tbl[id].user_is_active = 1}

\* SELECT * FROM users WHERE user_email = ? AND user_password = ? AND user_is_active = 1
LoginRows(tbl, username, password_hash) ==
    {id \in DOMAIN tbl : /\ tbl[id].user_email = username
                         /\ tbl[id].user_password = password_hash
                         /\ tbl[id].user_is_active = 1}

\* UserModel::get_user_for_login: fetch_one is Err when no row matches or the query fails
get_user_for_login(tbl, username, password_hash, dbOk) ==
    LET rows == LoginRows(tbl, username, password_hash) IN
    IF dbOk /\ rows # {}
    THEN LET id == CHOOSE i \in rows : \A j \in rows : i <= j
         IN  [ok |-> TRUE, id |-> id, row |-> tbl[id]]
    ELSE [ok |-> FALSE]

----------------------------------------------------------------------------
(* The login handler *)

NONE == "NONE"                               \* otp_code: None
OtpCodes == {NONE, "123456", "000000"}

\* LoginRequest::validate: username an e-mail address, password of length >= 6
Validate(p) == IsEmail(p.username) /\ PasswordLen[p.password] >= MinPasswordLen

\* a response of a handler: the HTTP status and the ApiResponse envelope; data and
\* message are Options (a set of at most one value), an absent error is "".  cause is
\* the Display text of the error that format!("..: {}", e) appends to the error string,
\* "" when the string is a literal.  (http 0: no response, the task panicked)
ApiErrorOf(http, error, cause) ==
    [http |-> http, status |-> FALSE, error |-> error, cause |-> cause, data |-> {},
     message |-> {}]
ApiError(http, error) == ApiErrorOf(http, error, "")
ApiSuccess(data) ==
    [http |-> 200, status |-> TRUE, error |-> "", cause |-> "", data |-> {data},
     message |-> {}]
ApiSuccessWithMessage(data, message) ==
    [http |-> 200, status |-> TRUE, error |-> "", cause |-> "", data |-> {data},
     message |-> {message}]
Panicked ==
    [http |-> 0, status |-> FALSE, error |-> "", cause |-> "", data |-> {}, message |-> {}]

\* the Display texts of the errors login formats into its answers: validator's
\* ValidationErrors (the messages of LoginRequest's rules) and bcrypt's BcryptError
ValidationErrors(p) ==
    IF ~IsEmail(p.username) THEN "username: Invalid email format"
    ELSE "password: Password must be at least 6 characters"
BcryptError == "BcryptError"

\* the claims login passes to the token constructors
LoginClaims(id, row) ==
    [user_id |-> id, shop_id |-> 1, shop_mother_id |-> 1, role_id |-> 1, shop_role_id |-> 1,
     user_email |-> row.user_email, sr_discount_type_id |-> 0, sr_discount |-> F32(0),
     password_version |-> row.password_version, user_type |-> 1]

\* controllers::auth::login over the table tbl, at time t, for the payload p;
\* salt is the salt hash_password draws; fault is what fails in the handler's
\* surroundings: nothing, the hasher ("hash") or the database query ("db")
login(tbl, e, t, p, salt, fault) ==
    IF ~Validate(p) THEN ApiErrorOf(400, "Validation error", ValidationErrors(p))
    ELSE IF fault = "hash" THEN ApiErrorOf(500, "Password hashing failed", BcryptError)
    ELSE LET user == get_user_for_login(tbl, p.username, hash_password(p.password, salt),
                                        fault # "db") IN
    IF ~user.ok THEN ApiError(401, "Invalid username or password")
    ELSE IF user.row.user_is_active = 0 THEN ApiError(403, "User account is deactivated")
    ELSE IF /\ user.row.user_otp_url # NULL
            /\ user.row.user_otp_url # ""
            /\ p.otp_code = NONE
         THEN ApiError(401, "OTP code required")
    ELSE LET c == LoginClaims(user.id, user.row)
             access == create_access_token(c, e, t)
             refresh == create_refresh_token(c, e, t)
         IN  IF ~access.ok \/ ~refresh.ok THEN Panicked
             ELSE ApiSuccess([user_id |-> user.id, email |-> user.row.user_email,
                              access_token |-> access.token,
                              refresh_token |-> refresh.token])

\* the tokens a response hands to the client, each with what it was made from
Issued(resp, tbl, t) ==
    UNION {{[cls |-> "access", tok |-> d.access_token, at |-> t,
             args |-> LoginClaims(d.user_id, tbl[d.user_id])],
            [cls |-> "refresh", tok |-> d.refresh_token, at |-> t,
             args |-> LoginClaims(d.user_id, tbl[d.user_id])]} : d \in resp.data}

\* the rows of the table with the e-mail address username
RowsOf(tbl, username) == {tbl[id] : id \in {i \in DOMAIN tbl : tbl[i].user_email = username}}

Faults == {"none", "hash", "db"}

\* POST /auth/login.  Besides the response, `last` keeps the payload, what failed
\* and the rows that carried the username at that time
Login(p, salt, fault) ==
    /\ Cardinality(tokens) < 2 * MaxLogins
    /\ LET resp == login(users, env, now, p, salt, fault) IN
        /\ last' = [kind |-> "login", resp |-> resp, payload |-> p, fault |-> fault,
                    known |-> RowsOf(users, p.username)]
        /\ tokens' = tokens \cup Issued(resp, users, now)
    /\ UNCHANGED <<orders, reqs, env, now, ticks, users>>

----------------------------------------------------------------------------
(* The operations of UserModel on the users table *)

NewRow(email, password_hash) ==
    [user_email |-> email, user_password |-> password_hash, user_is_active |-> 1,
     user_otp_url |-> NULL, password_version |-> 1]

\* INSERT INTO users (.., user_is_active, password_version) VALUES (.., 1, 1)
create_user(tbl, id, email, password_hash) ==
    [i \in DOMAIN tbl \cup {id} |-> IF i = id THEN NewRow(email, password_hash) ELSE tbl[i]]

\* the update with password_version left as it is
update_password_only(tbl, user_id, new_password_hash) ==
    [i \in DOMAIN tbl |->
        IF i = user_id THEN [tbl[i] EXCEPT !.user_password = new_password_hash] ELSE tbl[i]]

\* UPDATE users SET user_password = ?, password_version = password_version + 1 WHERE id = ?
update_password(tbl, user_id, new_password_hash) ==
    [i \in DOMAIN tbl |->
        IF i = user_id
        THEN [tbl[i] EXCEPT !.user_password = new_password_hash,
                            !.password_version = tbl[i].password_version + 1]
        ELSE tbl[i]]

\* UPDATE users SET user_is_active = 0 WHERE id = ?
deactivate_user(tbl, user_id) ==
    [i \in DOMAIN tbl |-> IF i = user_id THEN [tbl[i] EXCEPT !.user_is_active = 0] ELSE tbl[i]]

\* UPDATE users SET user_otp_url = ? WHERE id = ?
update_otp_url(tbl, user_id, otp_url) ==
    [i \in DOMAIN tbl |-> IF i = user_id THEN [tbl[i] EXCEPT !.user_otp_url = otp_url] ELSE tbl[i]]

UserIds == {1}

CreateUser(email, password, salt) ==
    /\ DOMAIN users # UserIds
    /\ \A i \in DOMAIN users : users[i].user_email # email
    /\ LET id == CHOOSE i \in UserIds \ DOMAIN users : \A j \in UserIds \ DOMAIN users : i <= j
       IN  users' = create_user(users, id, email, hash_password(password, salt))
    /\ UNCHANGED <<orders, reqs, env, now, ticks, tokens, last>>

UpdatePassword(user_id, password, salt) ==
    /\ user_id \in DOMAIN users
    /\ users[user_id].password_version < MaxPasswordVersion
    /\ users' = update_password(users, user_id, hash_password(password, salt))
    /\ UNCHANGED <<orders, reqs, env, now, ticks, tokens, last>>

DeactivateUser(user_id) ==
    /\ user_id \in DOMAIN users
    /\ users' = deactivate_user(users, user_id)
    /\ UNCHANGED <<orders, reqs, env, now, ticks, tokens, last>>

UpdateOtpUrl(user_id, otp_url) ==
    /\ user_id \in DOMAIN users
    /\ users' = update_otp_url(users, user_id, otp_url)
    /\ UNCHANGED <<orders, reqs, env, now, ticks, tokens, last>>

----------------------------------------------------------------------------
(* Requests through the guards, and the clock *)

FarFuture == 1000000

\* claims of an attacker's choosing
AttackerClaims ==
    [user_id |-> 2, shop_id |-> 2, shop_mother_id |-> 2, role_id |-> 1, shop_role_id |-> 1,
     user_email |-> "x@y.com", sr_discount_type_id |-> 0, sr_discount |-> F32(0),
     password_version |-> 1, user_type |-> 1]

\* tokens that were never issued: no token at all, tokens signed by the sender with a
\* key of its own choosing, a token of another algorithm, and an issued token whose
\* payload was changed while its signature was kept
ForgedTokens ==
    {Garbage}
    \cup {encode(SerializeRefresh(AttackerClaims, FarFuture, 0), k) : k \in Secrets}
    \cup {[encode(SerializeRefresh(AttackerClaims, FarFuture, 0), "k1") EXCEPT !.alg = "none"]}
    \cup {[t.tok EXCEPT !.payload.user_id = 2] : t \in tokens}

Headers ==
    {NoHeader, NonTextHeader, WrongSchemeHeader, NoSpaceHeader(Garbage)}
    \cup {Bearer(t.tok) : t \in tokens} \cup {Bearer(tok) : tok \in ForgedTokens}
    \cup {LowerCaseHeader(t.tok) : t \in tokens}

\* the password_version stored for the user a token names, 0 when there is none
StoredVersion(tbl, tok) ==
    IF "user_id" \in DOMAIN tok.payload /\ tok.payload.user_id \in DOMAIN tbl
    THEN tbl[tok.payload.user_id].password_version ELSE 0

\* a request to a route behind check_access_token.  Besides the run of the guard,
\* `last` keeps the password_version the table held at that time
check_access_token(h) ==
    /\ last' = [kind |-> "guard", run |-> AccessRun(h, env, now),
                stored |-> StoredVersion(users, h.token)]
    /\ UNCHANGED <<orders, reqs, env, now, ticks, users, tokens>>

\* a request to a route behind check_refresh_token
check_refresh_token(h) ==
    /\ last' = [kind |-> "guard", run |-> RefreshRun(h, env, now),
                stored |-> StoredVersion(users, h.token)]
    /\ UNCHANGED <<orders, reqs, env, now, ticks, users, tokens>>

----------------------------------------------------------------------------
(* The router and the handlers behind it *)

\* the tables the queries of UserModel join with users.  No operation of the server
\* writes them: user 1 is a member (us_invite = 2) of shop 2 in the shop role 3
user_shops == {[user_id |-> 1, shop_id |-> 2, shop_role_id |-> 3, us_invite |-> 2]}
shops == {[id |-> 2, shop_name |-> "clinic"]}
shop_roles == {[id |-> 3, shop_role_name |-> "owner", role_id |-> 2]}

\* UserModel::get_user_by_id: the join of users with the user's membership of the shop
\* shop_id, for an active user; fetch_one is Err when there is no row or the query fails
get_user_by_id(tbl, user_id, shop_id, dbOk) ==
    LET rows == {[id |-> user_id, user_email |-> tbl[user_id].user_email,
                  shop_id |-> us.shop_id, shop_name |-> sh.shop_name,
                  shop_role_id |-> us.shop_role_id, role_id |-> sr.role_id] :
                 <<us, sh, sr>> \in
                    {x \in user_shops \X shops \X shop_roles :
                        /\ user_id \in DOMAIN tbl
                        /\ x[1].user_id = user_id
                        /\ x[2].id = x[1].shop_id
                        /\ x[3].id = x[1].shop_role_id
                        /\ x[1].us_invite = 2
                        /\ x[1].shop_id = shop_id
                        /\ tbl[user_id].user_is_active = 1}}
    IN  IF dbOk /\ rows # {} THEN [ok |-> TRUE, row |-> CHOOSE r \in rows : TRUE]
        ELSE [ok |-> FALSE]

\* impl FromRequestParts for AuthUser: the AuthUser of the request's extensions
from_request_parts(ext) ==
    IF ext # NoExt THEN [ok |-> TRUE, auth |-> ext]
    ELSE [ok |-> FALSE, resp |-> TextResponse(401, "Unauthorized: No auth user found")]

\* the JSON of the unit value
Unit == [t |-> "null", v |-> 0]

\* the JSON of a struct and of a Vec: an object and an array
JsonObject(o) == [t |-> "object", v |-> o]
JsonArray(q) == [t |-> "array", v |-> q]

health_check == TextResponse(200, "OK")

logout == ApiSuccessWithMessage(Unit, "Logged out successfully")
verify_token == ApiSuccessWithMessage(Unit, "Token is valid")

get_current_user(tbl, auth, dbOk) ==
    LET user == get_user_by_id(tbl, auth.user_id, auth.shop_id, dbOk) IN
    IF ~user.ok THEN ApiError(404, "User not found")
    ELSE ApiSuccess([id |-> user.row.id, email |-> user.row.user_email,
                     shop_id |-> user.row.shop_id, shop_name |-> user.row.shop_name])

\* create_router: every route with the router it is nested in, its handler and whether
\* check_access_token is layered on it (on the routers of /user and /order, and on
\* the method router of /auth/verify)
RouteTable ==
    {[route |-> "GET /health", nest |-> "", handler |-> "health_check", layer |-> FALSE],
     [route |-> "POST /auth/login", nest |-> "/auth", handler |-> "login", layer |-> FALSE],
     [route |-> "POST /auth/logout", nest |-> "/auth", handler |-> "logout", layer |-> FALSE],
     [route |-> "GET /auth/verify", nest |-> "/auth", handler |-> "verify_token", layer |-> TRUE],
     [route |-> "GET /user/me", nest |-> "/user", handler |-> "get_current_user", layer |-> TRUE],
     [route |-> "GET /user/:id", nest |-> "/user", handler |-> "get_user_detail", layer |-> TRUE],
     [route |-> "PUT /user/", nest |-> "/user", handler |-> "update_user", layer |-> TRUE],
     [route |-> "GET /user/list", nest |-> "/user", handler |-> "get_shop_users", layer |-> TRUE],
     [route |-> "POST /order/search", nest |-> "/order", handler |-> "search_orders", layer |-> TRUE],
     [route |-> "GET /order/:id", nest |-> "/order", handler |-> "get_order_detail", layer |-> TRUE],
     [route |-> "POST /order/", nest |-> "/order", handler |-> "create_order", layer |-> TRUE],
     [route |-> "DELETE /order/:id", nest |-> "/order", handler |-> "delete_order", layer |-> TRUE]}

\* the layers with the one on the method router of /auth/verify left out
LayeredNest(r) == r.layer /\ r.nest # "/auth"

\* whether a request to the route r passes through check_access_token
Layered(r) == r.layer

\* the handlers that take the extractor `auth: AuthUser`
WithAuthUser ==
    {"get_current_user", "get_user_detail", "update_user", "get_shop_users",
     "search_orders", "get_order_detail", "create_order", "delete_order"}

\* the call of a route's handler on a request with the extensions ext: the extractor
\* first, then the handler.  resp is the answer, for the extractor's rejection and for
\* the handlers that read no more than the tables above; of the other handlers (they
\* bind a path or a body and read the tables of orders) the call alone is recorded
Invoke(handler, ext, tbl, dbOk) ==
    IF handler \in WithAuthUser /\ ~from_request_parts(ext).ok
    THEN [executed |-> FALSE, handler |-> handler, auth |-> NoExt,
          resp |-> {from_request_parts(ext).resp}]
    ELSE [executed |-> TRUE, handler |-> handler, auth |-> ext,
          resp |-> CASE handler = "health_check" -> {health_check}
                     [] handler = "logout" -> {logout}
                     [] handler = "verify_token" -> {verify_token}
                     [] handler = "get_current_user" -> {get_current_user(tbl, ext, dbOk)}
                     [] OTHER -> {}]

\* whether the user a token names is active in the table: 1 or 0, -1 when there is none
StoredActive(tbl, tok) ==
    IF "user_id" \in DOMAIN tok.payload /\ tok.payload.user_id \in DOMAIN tbl
    THEN tbl[tok.payload.user_id].user_is_active ELSE -1

\* a request whose logout raises the password_version of every user, to revoke tokens
RequestRevoking(r, h, dbOk) ==
    /\ r.handler # "login"
    /\ IF Layered(r)
       THEN LET run == AccessRun(h, env, now) IN
            last' = [kind |-> "guard", run |-> run, stored |-> StoredVersion(users, h.token),
                     active |-> StoredActive(users, h.token), route |-> r.route,
                     ran |-> IF run.trail[Len(run.trail)] = "Forwarded"
                             THEN {Invoke(r.handler, run.ext, users, dbOk)} ELSE {}]
       ELSE last' = [kind |-> "open", route |-> r.route,
                     ran |-> {Invoke(r.handler, NoExt, users, dbOk)}]
    /\ users' = IF r.handler = "logout"
                THEN [i \in DOMAIN users |->
                        [users[i] EXCEPT !.password_version = users[i].password_version + 1]]
                ELSE users
    /\ UNCHANGED <<orders, reqs, env, now, ticks, tokens>>

\* a request to the route r with the Authorization header h: through the guard where
\* one is layered, then to the handler.  Besides the run of the guard and the call of
\* the handler, `last` keeps what the table held for the token's user at that time
Request(r, h, dbOk) ==
    /\ r.handler # "login"
    /\ IF Layered(r)
       THEN LET run == AccessRun(h, env, now) IN
            last' = [kind |-> "guard", run |-> run, stored |-> StoredVersion(users, h.token),
                     active |-> StoredActive(users, h.token), route |-> r.route,
                     ran |-> IF run.trail[Len(run.trail)] = "Forwarded"
                             THEN {Invoke(r.handler, run.ext, users, dbOk)} ELSE {}]
       ELSE last' = [kind |-> "open", route |-> r.route,
                     ran |-> {Invoke(r.handler, NoExt, users, dbOk)}]
    /\ UNCHANGED <<orders, reqs, env, now, ticks, users, tokens>>

\* the steps of the clock: to the last second of a lifetime of a minute, past it, and
\* past the leeway of the decoder
TimeSteps == {60, 61, 121}

Tick(d) ==
    /\ ticks < MaxTicks
    /\ ticks' = ticks + 1
    /\ now' = now + d
    /\ UNCHANGED <<orders, reqs, env, users, tokens, last>>

----------------------------------------------------------------------------
(* The server *)

\* the configurations of the server: the two secrets absent, equal or different (the
\* secrets are interchangeable, so the access secret, when set, is k1); lifetimes of a
\* minute and of no time at all
Envs ==
    [JWT_AC_KEY : {"k1", UNSET}, JWT_RF_KEY : Secrets \cup {UNSET},
     JWT_AC_EXPIRE : {"1"}, JWT_RF_EXPIRE : {"0"}]

\* the payloads sent to login: the valid ones, and one for each rule of validation
Payloads ==
    [username : {u \in Usernames : IsEmail(u)},
     password : {p \in Passwords : PasswordLen[p] >= MinPasswordLen},
     otp_code : OtpCodes]
    \cup {[username |-> "nobody", password |-> "secret1", otp_code |-> NONE],
          [username |-> "a@b.com", password |-> "short", otp_code |-> NONE]}

NoRequest == [kind |-> "none"]

Init ==
    /\ env \in Envs
    /\ now = 0
    /\ ticks = 0
    /\ users = << >>
    /\ tokens = {}
    /\ last = NoRequest
    /\ orders = NoOrders
    /\ reqs = NoRequests

Next ==
    \/ \E p \in Payloads, salt \in Salts, fault \in Faults : Login(p, salt, fault)
    \/ \E email \in Emails : CreateUser(email, "secret1", "s1")
    \/ \E id \in UserIds, salt \in Salts : UpdatePassword(id, "wrong12", salt)
    \/ \E id \in UserIds : DeactivateUser(id)
    \/ \E id \in UserIds, url \in OtpUrls \ {NULL} : UpdateOtpUrl(id, url)
    \/ \E h \in Headers : check_access_token(h)
    \/ \E h \in Headers : check_refresh_token(h)
    \/ \E d \in TimeSteps : Tick(d)

Spec == Init /\ [][Next]_vars

----------------------------------------------------------------------------
(* The token codec on its own: the two constructors applied to claims and    *)
(* configurations of every kind, and their tokens presented to the guards    *)

MaxMinted == 1

\* the configurations of the codec: as Envs, with every text of the two lifetimes
CodecEnvs ==
    [JWT_AC_KEY : {"k1", UNSET}, JWT_RF_KEY : Secrets \cup {UNSET},
     JWT_AC_EXPIRE : ExpireTexts, JWT_RF_EXPIRE : ExpireTexts]

\* the claims handed to the constructors
ClaimInputs ==
    {[user_id |-> 1, shop_id |-> 1, shop_mother_id |-> 1, role_id |-> 1, shop_role_id |-> 1,
      user_email |-> "a@b.com", sr_discount_type_id |-> 0, sr_discount |-> F32(0),
      password_version |-> 1, user_type |-> 1],
     [user_id |-> 7, shop_id |-> 3, shop_mother_id |-> 2, role_id |-> 4, shop_role_id |-> 5,
      user_email |-> "c@d.com", sr_discount_type_id |-> 2, sr_discount |-> F32(15),
      password_version |-> 6, user_type |-> 2],
     [user_id |-> 1, shop_id |-> 1, shop_mother_id |-> 1, role_id |-> 1, shop_role_id |-> 1,
      user_email |-> "a@b.com", sr_discount_type_id |-> 1, sr_discount |-> NaN,
      password_version |-> 1, user_type |-> 1]}

Minted(cls, made, c, t) ==
    IF made.ok THEN {[cls |-> cls, tok |-> made.token, at |-> t, args |-> c]} ELSE {}

IssueAccess(c) ==
    /\ Cardinality(tokens) < MaxMinted
    /\ LET made == create_access_token(c, env, now) IN
        /\ tokens' = tokens \cup Minted("access", made, c, now)
        /\ last' = [kind |-> "issue", cls |-> "access", ok |-> made.ok, args |-> c]
    /\ UNCHANGED <<orders, reqs, env, now, ticks, users>>

IssueRefresh(c) ==
    /\ Cardinality(tokens) < MaxMinted
    /\ LET made == create_refresh_token(c, env, now) IN
        /\ tokens' = tokens \cup Minted("refresh", made, c, now)
        /\ last' = [kind |-> "issue", cls |-> "refresh", ok |-> made.ok, args |-> c]
    /\ UNCHANGED <<orders, reqs, env, now, ticks, users>>

InitCodec ==
    /\ env \in CodecEnvs
    /\ now = 0
    /\ ticks = 0
    /\ users = << >>
    /\ tokens = {}
    /\ last = NoRequest
    /\ orders = NoOrders
    /\ reqs = NoRequests

NextCodec ==
    \/ \E c \in ClaimInputs : IssueAccess(c)
    \/ \E c \in ClaimInputs : IssueRefresh(c)
    \/ \E h \in Headers : check_access_token(h)
    \/ \E h \in Headers : check_refresh_token(h)
    \/ \E d \in TimeSteps : Tick(d)

SpecCodec == InitCodec /\ [][NextCodec]_vars

----------------------------------------------------------------------------
(* The router on its own: a user who logs in and may be deactivated, and     *)
(* requests with every header to every route                                 *)

\* the login of the user CreateUser made, with the password of that user
RoutePayloads == {[username |-> "a@b.com", password |-> "secret1", otp_code |-> NONE]}

NextRoutes ==
    \/ \E email \in Emails : CreateUser(email, "secret1", "s1")
    \/ \E p \in RoutePayloads, salt \in Salts : Login(p, salt, "none")
    \/ \E id \in UserIds : DeactivateUser(id)
    \/ \E r \in RouteTable, h \in Headers, dbOk \in BOOLEAN : Request(r, h, dbOk)
    \/ \E d \in TimeSteps : Tick(d)

SpecRoutes == Init /\ [][NextRoutes]_vars

----------------------------------------------------------------------------
(* The guards of the static API keys *)

ApiKeys == {"p1", "p2"}

\* the X-API-Key header of a request: whether it is there, whether its bytes are text,
\* and its value
NoKeyHeader == [present |-> FALSE, text |-> FALSE, value |-> ""]
NonTextKeyHeader == [present |-> TRUE, text |-> FALSE, value |-> ""]
KeyHeader(value) == [present |-> TRUE, text |-> TRUE, value |-> value]

\* the values sent: the keys, a key in another case, a key with more after it, nothing
KeyValues == ApiKeys \cup {"P1", "p1x", ""}
KeyHeaders == {NoKeyHeader, NonTextKeyHeader} \cup {KeyHeader(v) : v \in KeyValues}

\* headers.get("X-API-Key").and_then(|h| h.to_str().ok())
ExtractKey(h) == h.present /\ h.text

\* the run of one key guard over one request at time t: key is the configured key,
\* msgs the guard's two rejection messages
KeyGuardRun(g, h, key, msgs, t) ==
    IF ~ExtractKey(h)
    THEN Finished(g, h, <<"Received", "Rejected">>, 401, msgs[1], NoExt, t)
    ELSE IF key = UNSET
    THEN Finished(g, h, <<"Received", "KeyExtracted", "Panicked">>, 0, "", NoExt, t)
    ELSE IF h.value # key
    THEN Finished(g, h, <<"Received", "KeyExtracted", "Rejected">>, 401, msgs[2], NoExt, t)
    ELSE Finished(g, h, <<"Received", "KeyExtracted", "Forwarded">>, 200, "", NoExt, t)

check_public_key(h) ==
    /\ last' = [kind |-> "keyguard",
                run |-> KeyGuardRun("public", h, env.TK_PUBLIC_KEY,
                                    <<"Missing API key", "Invalid API key">>, now)]
    /\ UNCHANGED <<orders, reqs, env, now, ticks, users, tokens>>

check_tele_public_key(h) ==
    /\ last' = [kind |-> "keyguard",
                run |-> KeyGuardRun("tele", h, env.TK_TELE_PUBLIC_KEY,
                                    <<"Missing telemedicine API key",
                                      "Invalid telemedicine API key">>, now)]
    /\ UNCHANGED <<orders, reqs, env, now, ticks, users, tokens>>

\* the configurations of the two keys
KeyEnvs == [TK_PUBLIC_KEY : ApiKeys \cup {UNSET}, TK_TELE_PUBLIC_KEY : ApiKeys \cup {UNSET}]

InitKeys ==
    /\ env \in KeyEnvs
    /\ now = 0
    /\ ticks = 0
    /\ users = << >>
    /\ tokens = {}
    /\ last = NoRequest
    /\ orders = NoOrders
    /\ reqs = NoRequests

NextKeys ==
    \/ \E h \in KeyHeaders : check_public_key(h)
    \/ \E h \in KeyHeaders : check_tele_public_key(h)

SpecKeys == InitKeys /\ [][NextKeys]_vars

----------------------------------------------------------------------------
(* The credential hasher on its own: a digest made of one password and       *)
(* verified against another                                                  *)

HasherPasswords == Passwords \cup LongPasswords

\* hash_password(p2) of a password chosen with the salt the hasher drew
HashPassword ==
    /\ last.kind = "hasher"
    /\ last' = [kind |-> "hashed", p1 |-> last.p1, p2 |-> last.p2,
                digest |-> hash_password(last.p2, last.salt)]
    /\ UNCHANGED <<orders, reqs, env, now, ticks, users, tokens>>

\* verify_password(p1, digest)
VerifyPassword ==
    /\ last.kind = "hashed"
    /\ last' = [kind |-> "verified", p1 |-> last.p1, p2 |-> last.p2, digest |-> last.digest,
                result |-> verify_password(last.p1, last.digest)]
    /\ UNCHANGED <<orders, reqs, env, now, ticks, users, tokens>>

InitHasher ==
    /\ env \in {e \in Envs : e.JWT_AC_KEY # UNSET /\ e.JWT_RF_KEY = e.JWT_AC_KEY}
    /\ now = 0
    /\ ticks = 0
    /\ users = << >>
    /\ tokens = {}
    /\ last \in [kind : {"hasher"}, p1 : HasherPasswords, p2 : HasherPasswords, salt : Salts]
    /\ orders = NoOrders
    /\ reqs = NoRequests

NextHasher == HashPassword \/ VerifyPassword

SpecHasher == InitHasher /\ [][NextHasher]_vars

----------------------------------------------------------------------------
(* What the claims speak of *)

\* the secret, the claims struct and the rejection messages of a guard
GuardKey(g) == IF g = "access" THEN env.JWT_AC_KEY ELSE env.JWT_RF_KEY
GuardFields(g) == IF g = "access" THEN AccessFields ELSE RefreshFields
MalformedMsg(g) ==
    IF g = "access" THEN "Invalid or expired token" ELSE "Invalid or expired refresh token"
ExpiredMsg(g) == IF g = "access" THEN "Token expired" ELSE "Refresh token expired"

\* the last request went through a guard / through guard g
Guarded == last.kind = "guard"
GuardedBy(g) == last.kind = "guard" /\ last.run.guard = g

\* how a run ended
Outcome(run) == run.trail[Len(run.trail)]
Rejected401(run) == Outcome(run) = "Rejected" /\ run.status = 401 /\ run.ext = NoExt
Forwarded(run) == Outcome(run) = "Forwarded"
FullTrail == <<"Received", "TokenExtracted", "TokenVerified", "IdentityAttached", "Forwarded">>

\* the issued tokens the last request carried
Carried == {t \in tokens : last.run.header = Bearer(t.tok)}

\* tok carries a signature made with the secret k over what it holds
SignedWith(tok, k) == tok.wellformed /\ tok.sig = Sign(k, tok.alg, tok.payload)

\* the last request was a login whose payload passed validation
LoggedIn == last.kind = "login" /\ Validate(last.payload)

\* the row has two-factor enrollment: an OTP url that is neither NULL nor empty
Enrolled(row) == row.user_otp_url # NULL /\ row.user_otp_url # ""

\* the one-time code the user's authenticator shows
ValidOtpCode == "123456"

----------------------------------------------------------------------------
(* The claims *)

\* C1: every request through check_access_token ends either Rejected (401, the
\* handler not invoked) or Forwarded, and Forwarded only after the stages token
\* extracted, token verified and identity attached, in that order.
C1_TwoOutcomesInOrder ==
    GuardedBy("access") =>
        \/ Rejected401(last.run)
        \/ last.run.trail = FullTrail

\* C2: a login with the correct password of an existing, active user without
\* two-factor enrollment is answered 200, status true, with both tokens.  (Stated for
\* a login in which neither the hasher nor the database failed and both signing
\* secrets are set.)
C2_CorrectPasswordLogsIn ==
    ( /\ LoggedIn
      /\ last.fault = "none"
      /\ env.JWT_AC_KEY # UNSET /\ env.JWT_RF_KEY # UNSET
      /\ \E r \in last.known : /\ r.user_is_active = 1
                               /\ ~Enrolled(r)
                               /\ verify_password(last.payload.password, r.user_password) )
    => ( /\ last.resp.http = 200
         /\ last.resp.status
         /\ last.resp.data # {} )

\* C3: once update_password has raised a user's password_version, every token issued
\* to that user before is rejected with 401 by the guards.
C3_VersionBumpRevokes ==
    Guarded =>
        \A t \in Carried :
            (t.cls = last.run.guard /\ last.stored > t.args.password_version)
                => Rejected401(last.run)

\* C4: a user with two-factor enrollment gets tokens from login only with a one-time
\* code that was supplied and verified.
C4_OtpGate ==
    ( /\ LoggedIn
      /\ last.resp.data # {}
      /\ \E r \in last.known : Enrolled(r) )
    => last.payload.otp_code = ValidOtpCode

\* C5: a token of one class is never accepted by the guard of the other class, in
\* every configuration of the two secrets the server runs with.
C5_ClassSeparation ==
    Guarded =>
        \A t \in Carried : t.cls # last.run.guard => ~Forwarded(last.run)

\* C6: a correctly signed token whose exp lies before the current time is rejected, and
\* rejected as expired, which the guard tells apart from a failure of decoding or of
\* the signature.  (Stated for the issued tokens, presented to the guard of their class.)
C6_ExpiredIsDistinct ==
    Guarded =>
        \A t \in Carried :
            (t.cls = last.run.guard /\ t.tok.payload.exp < last.run.at) =>
                /\ Rejected401(last.run)
                /\ last.run.msg = ExpiredMsg(last.run.guard)
                /\ last.run.msg # MalformedMsg(last.run.guard)

\* C7: a token signed with a secret other than the one the guard is configured with
\* is rejected with 401, as malformed, and never forwarded, whatever claims and expiry
\* it carries.  (Stated for a guard whose secret is set: the claim is about a guard
\* with a configured secret.)
C7_WrongSecretRejected ==
    ( /\ Guarded
      /\ ExtractToken(last.run.header)
      /\ GuardKey(last.run.guard) # UNSET
      /\ \E k \in Secrets : /\ k # GuardKey(last.run.guard)
                            /\ SignedWith(last.run.header.token, k) )
    => ( /\ Rejected401(last.run)
         /\ last.run.msg = MalformedMsg(last.run.guard) )

\* C7's case: a token with claims the guard would read and an expiry far ahead, signed
\* with another secret, was presented and rejected
C7_Witness ==
    /\ Guarded
    /\ ExtractToken(last.run.header)
    /\ GuardKey(last.run.guard) # UNSET
    /\ \E k \in Secrets : /\ k # GuardKey(last.run.guard)
                          /\ SignedWith(last.run.header.token, k)
    /\ last.run.header.token.alg = "HS256"
    /\ CanDeserialize(last.run.header.token.payload, GuardFields(last.run.guard))
    /\ last.run.header.token.payload.exp > last.run.at
    /\ Rejected401(last.run)

\* C8: the token create_access_token returns for claims c, presented to
\* check_access_token under the same secret, is accepted, and the AuthUser attached
\* has every identity field of c.  (Stated for a token presented in the second it was
\* issued in, made from claims whose sr_discount is a number.)
C8_RoundTrip ==
    GuardedBy("access") =>
        \A t \in Carried :
            (t.cls = "access" /\ last.run.at = t.at /\ ~t.args.sr_discount.nan) =>
                /\ Forwarded(last.run)
                /\ last.run.ext = [f \in IdentityFields |-> t.args[f]]

\* C9: every issued token has exp > iat, whatever the lifetimes are configured to.
C9_ExpAfterIat ==
    \A t \in tokens : t.tok.payload.exp > t.tok.payload.iat

\* C10: login answers an unknown e-mail address and a known one with a wrong password
\* alike: 401, status false, error "Invalid username or password".  (Stated for the
\* logins that pass validation and whose password the hasher accepted; a failure of
\* the hasher is answered 500 before the users table is read, for both alike.)
C10_NoEnumeration ==
    ( /\ LoggedIn
      /\ last.fault # "hash"
      /\ \/ last.known = {}
         \/ \A r \in last.known : ~verify_password(last.payload.password, r.user_password) )
    => last.resp = ApiError(401, "Invalid username or password")

\* C10's case: a login with the e-mail address of an active user and a wrong password
C10_Witness ==
    /\ LoggedIn
    /\ last.fault = "none"
    /\ \E r \in last.known : r.user_is_active = 1
    /\ \A r \in last.known : ~verify_password(last.payload.password, r.user_password)
    /\ last.resp = ApiError(401, "Invalid username or password")

----------------------------------------------------------------------------
(* The claims on login's claims, on deactivation and on the router *)

\* the last request was a login, whatever its payload
LoginRequested == last.kind = "login"

\* the tokens the last login handed out
HandedOut == UNION {{d.access_token, d.refresh_token} : d \in last.resp.data}

\* the last request went to a route behind check_access_token
Routed == last.kind = "guard" /\ "route" \in DOMAIN last

\* the handlers of the protected routes
ProtectedHandlers == WithAuthUser \cup {"verify_token"}

\* the routes whose handler's answer is computed
AnsweredRoutes == {"GET /auth/verify", "GET /user/me"}

\* the HTTP statuses the last routed request was answered with
AnsweredWith ==
    {r.http : r \in last.run.reject} \cup UNION {{r.http : r \in i.resp} : i \in last.ran}

\* C11: the tokens login issues carry the identity of the user record found (user_email,
\* password_version) and that user's shop membership and role: shop_id and
\* shop_role_id of a membership of the user, role_id of that shop role.
C11_TokensCarryShopData ==
    (LoginRequested /\ last.resp.data # {}) =>
        \A tok \in HandedOut :
            /\ \E r \in last.known :
                  /\ r.user_email = tok.payload.user_email
                  /\ r.password_version = tok.payload.password_version
            /\ \E m \in user_shops, sr \in shop_roles :
                  /\ m.user_id = tok.payload.user_id
                  /\ m.us_invite = 2
                  /\ m.shop_id = tok.payload.shop_id
                  /\ m.shop_role_id = tok.payload.shop_role_id
                  /\ sr.id = m.shop_role_id
                  /\ sr.role_id = tok.payload.role_id

\* C12: a login whose credentials match a deactivated account is answered 403, "User
\* account is deactivated", not the 401 of bad credentials.
C12_DeactivatedLoginIs403 ==
    ( /\ LoggedIn
      /\ last.fault = "none"
      /\ \E r \in last.known : /\ r.user_is_active = 0
                               /\ verify_password(last.payload.password, r.user_password) )
    => last.resp = ApiError(403, "User account is deactivated")

\* C13: a request to a protected route with a valid, unexpired access token of a user
\* who was deactivated after the token was issued is answered 403.  (Stated for the
\* routes whose handler's answer is computed: /auth/verify and /user/me.)
C13_DeactivatedTokenIs403 ==
    ( /\ Routed
      /\ last.route \in AnsweredRoutes
      /\ last.active = 0
      /\ \E t \in Carried : t.cls = "access" /\ t.tok.payload.exp >= last.run.at )
    => AnsweredWith = {403}

\* C14: a handler of a protected route executes only on a request that went through
\* check_access_token and was forwarded by it: the request carried `Authorization:
\* Bearer <token>` with a token that verifies under JWT_AC_KEY and has not expired.
C14_HandlersBehindGuard ==
    (last.kind \in {"guard", "open"} /\ "ran" \in DOMAIN last) =>
        \A i \in last.ran :
            (i.executed /\ i.handler \in ProtectedHandlers) =>
                /\ last.kind = "guard"
                /\ last.run.guard = "access"
                /\ last.run.header.present /\ last.run.header.text
                /\ last.run.header.scheme = "Bearer "
                /\ env.JWT_AC_KEY # UNSET
                /\ SignedWith(last.run.header.token, env.JWT_AC_KEY)
                /\ last.run.header.token.payload.exp >= last.run.at
                /\ i.auth = AuthUserOf(Deserialize(last.run.header.token.payload, AccessFields))

\* C14's case: the handler of a protected route executed
C14_Witness ==
    /\ Routed
    /\ \E i \in last.ran : i.executed /\ i.handler \in ProtectedHandlers
    /\ \E t \in Carried : t.cls = "access"

\* C15: a request without an Authorization header, or with one that is not text or
\* does not begin with exactly "Bearer ", is rejected by both token guards with 401,
\* "Missing or invalid Authorization header", before a token is extracted or decoded.
C15_BadHeaderRejected ==
    ( /\ Guarded
      /\ \/ ~last.run.header.present
         \/ ~last.run.header.text
         \/ last.run.header.scheme # "Bearer " )
    => ( /\ Rejected401(last.run)
         /\ last.run.msg = "Missing or invalid Authorization header"
         /\ last.run.trail = <<"Received", "Rejected">> )

\* C15's case: an issued token sent after the prefix in lower case was rejected
C15_Witness ==
    /\ Guarded
    /\ last.run.header.scheme = "bearer "
    /\ \E t \in tokens : /\ t.tok = last.run.header.token
                         /\ t.cls = last.run.guard
                         /\ t.tok.payload.exp >= last.run.at
    /\ GuardKey(last.run.guard) # UNSET
    /\ Rejected401(last.run)

----------------------------------------------------------------------------
(* The claims on the key guards, on configuration and on failures *)

\* the last request went through a guard of a static API key
KeyGuarded == last.kind = "keyguard"

\* the key the guard g is configured with
ConfiguredKey(g) == IF g = "public" THEN env.TK_PUBLIC_KEY ELSE env.TK_TELE_PUBLIC_KEY

\* the Display texts of internal errors
InternalErrors == {BcryptError}

\* r is the standard error envelope: status false, a readable error, data and message
\* omitted, no text of an internal error in the error string
ErrorEnvelope(r) ==
    /\ {"status", "error", "data", "message", "cause"} \subseteq DOMAIN r
    /\ r.status = FALSE
    /\ r.error # ""
    /\ r.data = {}
    /\ r.message = {}
    /\ r.cause \notin InternalErrors

\* C16: a key guard forwards a request if and only if its X-API-Key header is there
\* and equals the configured key; every other request is answered 401 and not forwarded.
C16_KeyGuardExact ==
    KeyGuarded =>
        LET h == last.run.header
            matches == /\ h.present /\ h.text
                       /\ ConfiguredKey(last.run.guard) # UNSET
                       /\ h.value = ConfiguredKey(last.run.guard)
        IN  /\ Forwarded(last.run) <=> matches
            /\ ~matches => Rejected401(last.run)

\* C17: no request meets a missing secret while it is processed: no guard and no
\* login ends in the panic of `.expect("<NAME> must be set")`.
C17_NoRequestMeetsMissingSecret ==
    /\ Guarded => Outcome(last.run) # "Panicked"
    /\ LoginRequested => last.resp # Panicked

\* C18: whatever the Authorization header and the token of a request, a token guard
\* ends in Forwarded or in Rejected.
C18_GuardsNeverPanic ==
    Guarded => Outcome(last.run) \in {"Forwarded", "Rejected"}

\* C19: every authentication failure a client sees, the rejection of a guard and the
\* failure of a login, is the standard error envelope, its error string without text
\* of an internal error.
C19_FailuresInEnvelope ==
    /\ Guarded => \A r \in last.run.reject : ErrorEnvelope(r)
    /\ (LoginRequested /\ last.resp.http \notin {0, 200}) => ErrorEnvelope(last.resp)

\* C20: a login whose lookup in the users table fails for a reason of the database is
\* answered with a status of the 500 class, not with 401.
C20_DbFailureIs500 ==
    (LoggedIn /\ last.fault = "db") => last.resp.http >= 500

----------------------------------------------------------------------------
(* The claims on lifetimes, on the hasher and on the boundary of expiry *)

\* the lifetime of an access token in seconds, by the configuration
AccessTtlSeconds == ParseExpire(env.JWT_AC_EXPIRE, DefaultAccessMinutes) * SecondsPerMinute

\* C21: an access token issued before its user's password was changed is rejected by
\* check_access_token at every time later than its issuance plus the lifetime of
\* access tokens: the token outlives the change by no more than that lifetime.
C21_StalenessBounded ==
    GuardedBy("access") =>
        \A t \in Carried :
            ( /\ t.cls = "access"
              /\ last.stored > t.args.password_version
              /\ last.run.at > t.at + AccessTtlSeconds )
            => Rejected401(last.run)

\* C21's case: after a password change, the old access token was presented past its
\* lifetime, within the leeway of the decoder, and was rejected
C21_Witness ==
    /\ GuardedBy("access")
    /\ \E t \in Carried : /\ t.cls = "access"
                          /\ last.stored > t.args.password_version
                          /\ last.run.at > t.at + AccessTtlSeconds
                          /\ last.run.at <= t.at + AccessTtlSeconds + DecodeLeeway
    /\ Rejected401(last.run)

\* the seconds between iat and exp a configured text stands for: minutes or hours of
\* the number it spells, the default when it is absent or spells no integer
ExpectedLifetime(raw, unit, default) ==
    CASE raw = "1" -> unit
      [] raw = "0" -> 0
      [] raw = "-1" -> 0 - unit
      [] OTHER -> default

\* C22: an access token has exp = iat + 60 * JWT_AC_EXPIRE and a refresh token has
\* exp = iat + 3600 * JWT_RF_EXPIRE; with the variable unset or no integer the
\* lifetime is 90 minutes (5400 s) and 720 hours (2592000 s).
C22_LifetimesFollowConfig ==
    \A t \in tokens :
        t.tok.payload.exp - t.tok.payload.iat =
            IF t.cls = "access"
            THEN ExpectedLifetime(env.JWT_AC_EXPIRE, 60, 5400)
            ELSE ExpectedLifetime(env.JWT_RF_EXPIRE, 3600, 2592000)

\* C22's case: tokens issued under a lifetime that spells no integer
C22_Witness ==
    \E t \in tokens : /\ t.cls = "access"
                      /\ env.JWT_AC_EXPIRE = "abc"
                      /\ t.tok.payload.exp = t.tok.payload.iat + 5400

\* C23: verify_password(p1, hash_password(p2)) is true exactly when p1 = p2.
C23_VerifyIffSamePassword ==
    last.kind = "verified" => (last.result <=> last.p1 = last.p2)

\* C24: a token of the guard's class, correctly signed, is accepted if and only if its
\* exp is not before the time of the check: accepted in the second of its exp,
\* rejected one second later, within the leeway of the decoder.
C24_ExpiryBoundary ==
    Guarded =>
        \A t \in Carried :
            t.cls = last.run.guard =>
                /\ Forwarded(last.run) <=> t.tok.payload.exp >= last.run.at
                /\ ~Forwarded(last.run) => Rejected401(last.run)

\* C24's case: an access token presented in the second of its exp, later than its iat
C24_Witness ==
    /\ Guarded
    /\ \E t \in Carried : /\ t.cls = last.run.guard
                          /\ t.tok.payload.exp = last.run.at
                          /\ t.tok.payload.iat < last.run.at
    /\ Forwarded(last.run)

----------------------------------------------------------------------------
(* The claims on password_version and on logout *)

LoggedOut == last.kind = "open" /\ last.route = "POST /auth/logout"

----------------------------------------------------------------------------
(* Requests in flight at the same time: check_access_token taken apart into  *)
(* the steps a worker thread takes, so that the steps of two requests        *)
(* interleave                                                                *)

MaxRequests == 2
RequestIds == 1..MaxRequests

\* a request that has not arrived
IdleRequest ==
    [pc |-> "Idle", header |-> NoHeader, claims |-> NoExt, ext |-> NoExt,
     auth |-> NoExt, resp |-> {}]

\* an insert that writes the AuthUser where every request in flight reads it
extensions_insert_shared(rs, i, auth_user) ==
    [j \in DOMAIN rs |-> [rs[j] EXCEPT !.ext = auth_user]]

\* request.extensions_mut().insert(auth_user): the extensions of this request
extensions_insert(rs, i, auth_user) == [rs EXCEPT ![i].ext = auth_user]

\* the two tokens of the clients: create_access_token called for two users at time 0
ClientTokens(e) ==
    UNION {Minted("access", create_access_token(c, e, 0), c, 0) :
              c \in {x \in ClaimInputs : ~x.sr_discount.nan}}

\* a request arrives with its headers
Arrive(i, h) ==
    /\ reqs[i].pc = "Idle"
    /\ reqs' = [reqs EXCEPT ![i] = [IdleRequest EXCEPT !.pc = "Received", !.header = h]]
    /\ UNCHANGED <<env, now, ticks, users, tokens, last, orders>>

\* the Authorization header is read and the prefix stripped
ExtractStep(i) ==
    /\ reqs[i].pc = "Received"
    /\ reqs' = IF ExtractToken(reqs[i].header)
               THEN [reqs EXCEPT ![i].pc = "TokenExtracted"]
               ELSE [reqs EXCEPT ![i].pc = "Rejected",
                                 ![i].resp = {TextResponse(401,
                                      "Missing or invalid Authorization header")}]
    /\ UNCHANGED <<env, now, ticks, users, tokens, last, orders>>

\* the token is decoded under JWT_AC_KEY and its exp compared with the clock
VerifyStep(i) ==
    /\ reqs[i].pc = "TokenExtracted"
    /\ reqs' =
        IF env.JWT_AC_KEY = UNSET THEN [reqs EXCEPT ![i].pc = "Panicked"]
        ELSE LET d == decode(reqs[i].header.token, env.JWT_AC_KEY, AccessFields, now) IN
             IF ~d.ok
             THEN [reqs EXCEPT ![i].pc = "Rejected",
                               ![i].resp = {TextResponse(401, "Invalid or expired token")}]
             ELSE IF d.claims.exp < now
             THEN [reqs EXCEPT ![i].pc = "Rejected",
                               ![i].resp = {TextResponse(401, "Token expired")}]
             ELSE [reqs EXCEPT ![i].pc = "TokenVerified", ![i].claims = d.claims]
    /\ UNCHANGED <<env, now, ticks, users, tokens, last, orders>>

\* the AuthUser is built from the claims and put into the request's extensions
AttachStep(i) ==
    /\ reqs[i].pc = "TokenVerified"
    /\ reqs' = [extensions_insert(reqs, i, AuthUserOf(reqs[i].claims))
                    EXCEPT ![i].pc = "IdentityAttached"]
    /\ UNCHANGED <<env, now, ticks, users, tokens, last, orders>>

\* next.run(request): the handler's AuthUser extractor reads the request's extensions
HandleStep(i) ==
    /\ reqs[i].pc = "IdentityAttached"
    /\ LET x == from_request_parts(reqs[i].ext) IN
        reqs' = IF x.ok THEN [reqs EXCEPT ![i].pc = "Forwarded", ![i].auth = x.auth]
                ELSE [reqs EXCEPT ![i].pc = "Rejected", ![i].resp = {x.resp}]
    /\ UNCHANGED <<env, now, ticks, users, tokens, last, orders>>

InitConc ==
    /\ env \in {e \in Envs : e.JWT_RF_KEY = e.JWT_AC_KEY}
    /\ now = 0
    /\ ticks = 0
    /\ users = << >>
    /\ tokens = ClientTokens(env)
    /\ last = NoRequest
    /\ orders = NoOrders
    /\ reqs = [i \in RequestIds |-> IdleRequest]

NextConc ==
    \/ \E i \in RequestIds, h \in Headers : Arrive(i, h)
    \/ \E i \in RequestIds : ExtractStep(i)
    \/ \E i \in RequestIds : VerifyStep(i)
    \/ \E i \in RequestIds : AttachStep(i)
    \/ \E i \in RequestIds : HandleStep(i)
    \/ \E d \in TimeSteps : Tick(d)

SpecConc == InitConc /\ [][NextConc]_vars

----------------------------------------------------------------------------
(* The claim on concurrent requests *)

----------------------------------------------------------------------------
(* The orders of the shops: the orders table, OrderModel and the handlers    *)
(* of /order, called with the AuthUser the guard attached                    *)

MaxOrders == 2
OrderIds == 1..(MaxOrders + 1)
Customers == {1, 2}
SqlxError == "sqlx::Error"

\* Option<T>: None and Some(v)
None == {}
Some(v) == {v}

\* the identities check_access_token attaches: the AuthUser of two users of two shops
OrderAuths == {AuthUserOf(c) : c \in {x \in ClaimInputs : ~x.sr_discount.nan}}

\* format!("ORD-{}-{}", shop_id, timestamp): the text is the prefix and the two numbers
\* in decimal, so it is the same text exactly when the two numbers are the same
order_code_of(shop_id, timestamp) == <<"ORD", shop_id, timestamp>>

\* payload.items.iter().map(|item| item.price * item.quantity as f64).sum()
RECURSIVE ItemsTotal(_)
ItemsTotal(items) ==
    IF items = << >> THEN 0
    ELSE items[1].price * items[1].quantity + ItemsTotal(Tail(items))

CreateOrderRequests ==
    [customer_id : Customers, items : {<<[product_id |-> 1, quantity |-> 2, price |-> 5]>>}]

OrderSearchRequests ==
    [customer_id : {None, Some(1)}, status : {None, Some(1)},
     page : {None, Some(2)}, limit : {None, Some(1)}]

OrderResponseOf(o) ==
    [id |-> o.id, shop_id |-> o.shop_id, customer_id |-> o.customer_id,
     order_code |-> o.order_code, order_total |-> o.order_total,
     order_discount |-> o.order_discount, order_net |-> o.order_net,
     order_status |-> o.order_status]

\* SELECT * FROM orders WHERE id = ? AND shop_id = ?, fetch_one: Err when there is no row
OrderModel_get_order_by_id(db, order_id, shop_id, dbOk) ==
    LET rows == {r \in db.rows : r.id = order_id /\ r.shop_id = shop_id}
    IN  IF dbOk /\ rows # {} THEN [ok |-> TRUE, order |-> CHOOSE r \in rows : TRUE]
        ELSE [ok |-> FALSE]

\* the orders of a table in the orders ORDER BY created_at DESC allows: rows of the
\* same created_at come in any order
Orderings(rows) ==
    {q \in [1..Cardinality(rows) -> rows] :
        /\ \A i, j \in DOMAIN q : i # j => q[i] # q[j]
        /\ \A i, j \in DOMAIN q : i < j => q[i].created_at >= q[j].created_at}

\* the text OrderModel::search_orders builds, as the sequence of its placeholders: one
\* for each condition of WHERE, then LIMIT ? OFFSET ?
BuiltQuery(customer_id, status) ==
    <<"shop_id">>
    \o (IF customer_id # None THEN <<"customer_id">> ELSE << >>)
    \o (IF status # None THEN <<"order_status">> ELSE << >>)
    \o <<"LIMIT", "OFFSET">>

\* query_as(query).bind(..)...fetch_all: the values bound go to the placeholders by
\* position; a statement executed with fewer values than placeholders is an Err
FetchAll(db, query, binds, dbOk, pick) ==
    IF ~dbOk \/ Len(binds) # Len(query) THEN [ok |-> FALSE]
    ELSE LET n == Len(query)
             matching == SelectSeq(pick,
                            LAMBDA r : \A k \in 1..(n - 2) : r[query[k]] = binds[k])
             limit == binds[n - 1]
             offset == binds[n]
             upto == IF offset + limit < Len(matching) THEN offset + limit
                     ELSE Len(matching)
         IN  [ok |-> TRUE, orders |-> SubSeq(matching, offset + 1, upto)]

\* OrderModel::search_orders: the conditions of the filters are pushed to the text, and
\* shop_id, limit and offset are the values bound
OrderModel_search_orders(db, shop_id, customer_id, status, limit, offset, dbOk, pick) ==
    FetchAll(db, BuiltQuery(customer_id, status), <<shop_id, limit, offset>>, dbOk, pick)

\* INSERT INTO orders (..) VALUES (?, ?, ?, NOW(), ?, ?, ?, 1), last_insert_id()
OrderModel_create_order(db, shop_id, customer_id, order_code, total, discount, net, t, dbOk) ==
    IF ~dbOk THEN [ok |-> FALSE, db |-> db]
    ELSE [ok |-> TRUE, id |-> db.auto_increment,
          db |-> [auto_increment |-> db.auto_increment + 1,
                  rows |-> db.rows \cup
                      {[id |-> db.auto_increment, shop_id |-> shop_id,
                        customer_id |-> customer_id, order_code |-> order_code,
                        order_date |-> t, order_total |-> total,
                        order_discount |-> discount, order_net |-> net,
                        order_status |-> 1, created_at |-> t]}]]

\* a DELETE that names the order by its id alone
OrderModel_delete_order_any_shop(db, order_id, shop_id, dbOk) ==
    IF ~dbOk THEN [ok |-> FALSE, db |-> db]
    ELSE [ok |-> TRUE,
          db |-> [db EXCEPT !.rows = {r \in db.rows : r.id # order_id}]]

\* DELETE FROM orders WHERE id = ? AND shop_id = ?
OrderModel_delete_order(db, order_id, shop_id, dbOk) ==
    IF ~dbOk THEN [ok |-> FALSE, db |-> db]
    ELSE [ok |-> TRUE,
          db |-> [db EXCEPT !.rows =
                     {r \in db.rows : ~(r.id = order_id /\ r.shop_id = shop_id)}]]

\* unwrap_or of an Option
UnwrapOr(opt, default) == IF opt = None THEN default ELSE CHOOSE v \in opt : TRUE

DefaultPage == 1
DefaultLimit == 20

\* the handler search_orders
search_orders(db, auth, params, dbOk, pick) ==
    LET page == UnwrapOr(params.page, DefaultPage)
        limit == UnwrapOr(params.limit, DefaultLimit)
        offset == (page - 1) * limit
        found == OrderModel_search_orders(db, auth.shop_id, params.customer_id,
                                          params.status, limit, offset, dbOk, pick)
    IN  IF ~found.ok THEN ApiErrorOf(500, "Search failed", SqlxError)
        ELSE ApiSuccess(JsonArray([k \in DOMAIN found.orders |->
                                      OrderResponseOf(found.orders[k])]))

\* the handler get_order_detail: every Err of the lookup is 404
get_order_detail(db, auth, order_id, dbOk) ==
    LET found == OrderModel_get_order_by_id(db, order_id, auth.shop_id, dbOk)
    IN  IF ~found.ok THEN ApiError(404, "Order not found")
        ELSE ApiSuccess(JsonObject(OrderResponseOf(found.order)))

\* the handler create_order at time t: the response and the table it leaves
create_order(db, auth, payload, t, dbOk) ==
    LET order_code == order_code_of(auth.shop_id, t)
        total == ItemsTotal(payload.items)
        discount == 0
        net == total - discount
        made == OrderModel_create_order(db, auth.shop_id, payload.customer_id,
                                        order_code, total, discount, net, t, dbOk)
    IN  IF ~made.ok
        THEN [db |-> made.db, resp |-> ApiErrorOf(500, "Order creation failed", SqlxError)]
        ELSE [db |-> made.db,
              resp |-> ApiSuccess(JsonObject(
                          [id |-> made.id, shop_id |-> auth.shop_id,
                           customer_id |-> payload.customer_id,
                           order_code |-> order_code, order_total |-> total,
                           order_discount |-> discount, order_net |-> net,
                           order_status |-> 1]))]

\* the handler delete_order: the response and the table it leaves
delete_order(db, auth, order_id, dbOk) ==
    LET gone == OrderModel_delete_order(db, order_id, auth.shop_id, dbOk)
    IN  IF ~gone.ok
        THEN [db |-> gone.db, resp |-> ApiErrorOf(500, "Delete failed", SqlxError)]
        ELSE [db |-> gone.db,
              resp |-> ApiSuccessWithMessage(Unit, "Order deleted successfully")]

OrderRequest(op, auth, args, dbOk, resp) ==
    [kind |-> "order", op |-> op, auth |-> auth, args |-> args, dbOk |-> dbOk,
     resp |-> resp]

SearchOrders(auth, params, dbOk) ==
    /\ \E pick \in Orderings(orders.rows) :
          last' = OrderRequest("search", auth, params, dbOk,
                               search_orders(orders, auth, params, dbOk, pick))
    /\ UNCHANGED <<env, now, ticks, users, tokens, orders, reqs>>

GetOrderDetail(auth, order_id, dbOk) ==
    /\ last' = OrderRequest("get", auth, [order_id |-> order_id], dbOk,
                            get_order_detail(orders, auth, order_id, dbOk))
    /\ UNCHANGED <<env, now, ticks, users, tokens, orders, reqs>>

CreateOrder(auth, payload, dbOk) ==
    /\ orders.auto_increment <= MaxOrders
    /\ LET done == create_order(orders, auth, payload, now, dbOk) IN
        /\ orders' = done.db
        /\ last' = OrderRequest("create", auth, payload, dbOk, done.resp)
    /\ UNCHANGED <<env, now, ticks, users, tokens, reqs>>

DeleteOrder(auth, order_id, dbOk) ==
    /\ LET done == delete_order(orders, auth, order_id, dbOk) IN
        /\ orders' = done.db
        /\ last' = OrderRequest("delete", auth, [order_id |-> order_id], dbOk, done.resp)
    /\ UNCHANGED <<env, now, ticks, users, tokens, reqs>>

\* the clock between two requests to /order: the next second
OrderTimeSteps == {1}

InitOrders ==
    /\ env \in {e \in Envs : e.JWT_AC_KEY # UNSET /\ e.JWT_RF_KEY = e.JWT_AC_KEY}
    /\ now = 0
    /\ ticks = 0
    /\ users = << >>
    /\ tokens = {}
    /\ last = NoRequest
    /\ orders = NoOrders
    /\ reqs = NoRequests

NextOrders ==
    \/ \E auth \in OrderAuths, params \in OrderSearchRequests, dbOk \in BOOLEAN :
          SearchOrders(auth, params, dbOk)
    \/ \E auth \in OrderAuths, id \in OrderIds, dbOk \in BOOLEAN :
          GetOrderDetail(auth, id, dbOk)
    \/ \E auth \in OrderAuths, payload \in CreateOrderRequests, dbOk \in BOOLEAN :
          CreateOrder(auth, payload, dbOk)
    \/ \E auth \in OrderAuths, id \in OrderIds, dbOk \in BOOLEAN :
          DeleteOrder(auth, id, dbOk)
    \/ \E d \in OrderTimeSteps : Tick(d)

SpecOrders == InitOrders /\ [][NextOrders]_vars

----------------------------------------------------------------------------
(* The claims on orders *)

\* the last request was one to /order
Ordered(op) == last.kind = "order" /\ last.op = op

\* C27: a request to /order made for shop s returns only orders of shop s, creates its
\* order in shop s, removes at most the order of the given id in shop s, and leaves the
\* orders of every other shop as they were; reading requests leave the whole table.
C27_OrdersOfOwnShopOnly ==
    [][ (last' # last \/ orders' # orders) =>
          /\ last'.kind = "order"
          /\ LET s == last'.auth.shop_id
                 op == last'.op
                 resp == last'.resp
             IN  /\ {r \in orders'.rows : r.shop_id # s} = {r \in orders.rows : r.shop_id # s}
                 /\ op = "get" =>
                       /\ orders' = orders
                       /\ \A d \in resp.data :
                             d.v.shop_id = s /\ d.v.id = last'.args.order_id
                 /\ op = "search" =>
                       /\ orders' = orders
                       /\ \A d \in resp.data : \A k \in DOMAIN d.v : d.v[k].shop_id = s
                 /\ op = "create" =>
                       /\ orders.rows \subseteq orders'.rows
                       /\ \A r \in orders'.rows \ orders.rows : r.shop_id = s
                       /\ resp.status <=> Cardinality(orders'.rows \ orders.rows) = 1
                       /\ \A d \in resp.data : d.v.shop_id = s
                 /\ op = "delete" =>
                       /\ orders'.rows \subseteq orders.rows
                       /\ \A r \in orders.rows \ orders'.rows :
                             r.id = last'.args.order_id /\ r.shop_id = s
      ]_vars

\* C27's case: a shop asked to delete the order of another shop, and the order is there
C27_Witness ==
    /\ Ordered("delete")
    /\ last.resp.status
    /\ \E r \in orders.rows : r.id = last.args.order_id /\ r.shop_id # last.auth.shop_id

\* the orders a search is expected to find: those of the caller's shop that pass every
\* filter given, in the order pick, cut to the page
ExpectedPage(pick, auth, params) ==
    LET limit == UnwrapOr(params.limit, DefaultLimit)
        offset == (UnwrapOr(params.page, DefaultPage) - 1) * limit
        passing == SelectSeq(pick, LAMBDA r :
                      /\ r.shop_id = auth.shop_id
                      /\ \A c \in params.customer_id : r.customer_id = c
                      /\ \A st \in params.status : r.order_status = st)
        upto == IF offset + limit < Len(passing) THEN offset + limit ELSE Len(passing)
        page == SubSeq(passing, offset + 1, upto)
    IN  JsonArray([k \in DOMAIN page |-> OrderResponseOf(page[k])])

\* C28: a search the database answers returns the page (page - 1) * limit .. of the
\* caller's orders that pass every filter given, newest first.
C28_SearchAppliesFilters ==
    (Ordered("search") /\ last.dbOk) =>
        /\ last.resp.status
        /\ \E pick \in Orderings(orders.rows) :
              last.resp.data = {ExpectedPage(pick, last.auth, last.args)}

\* C29: no two orders of the table carry the same order_code.
C29_OrderCodesUnique ==
    \A a, b \in orders.rows : a.id # b.id => a.order_code # b.order_code

====
